---- MODULE Spec2Model ----
(***************************************************************************)
(* Model of ServerlessPlugin (src/index.js): five hook handlers that query *)
(* the deployed stack's outputs and shell out to the `aws` command line.   *)
(*                                                                         *)
(* Strings are sequences of chunks.  A chunk is a piece of text; the space *)
(* " " and the double quote "\"" are always chunks of their own in every   *)
(* string that can reach the shell, so that word splitting and quote       *)
(* removal can be computed.  Text that is only ever logged (messages) is   *)
(* kept as one chunk.  The empty string is <<>>.                           *)
(*                                                                         *)
(* One behaviour is one hook invocation by the host framework: the handler *)
(* runs up to its first pending request and returns; every later step is a *)
(* promise callback run when a provider request settles.                   *)
(***************************************************************************)
EXTENDS Naturals, Sequences, FiniteSets, TLC

\* ------------------------------------------------------------------ bounds
MaxOutputs == 2
MaxDistributions == 2

\* ------------------------------------------------------------ string tools
Space == " "
Quote == "\""

RECURSIVE Join(_, _)
\* Array.prototype.join: the strings of strs with sep between them.
Join(strs, sep) ==
  IF strs = <<>> THEN <<>>
  ELSE IF Len(strs) = 1 THEN strs[1]
  ELSE strs[1] \o <<sep>> \o Join(Tail(strs), sep)

RECURSIVE ShellScan(_, _, _, _, _)
\* /bin/sh reading a command line: unquoted spaces separate words, double
\* quotes group and are removed, an empty unquoted stretch is no word.
ShellScan(line, words, cur, inWord, inQuote) ==
  IF line = <<>>
  THEN IF inWord THEN Append(words, cur) ELSE words
  ELSE LET c == Head(line)
           rest == Tail(line)
       IN IF c = Quote
          THEN ShellScan(rest, words, cur, TRUE, ~inQuote)
          ELSE IF c = Space /\ ~inQuote
          THEN ShellScan(rest, IF inWord THEN Append(words, cur) ELSE words,
                         <<>>, FALSE, FALSE)
          ELSE ShellScan(rest, words, cur \o <<c>>, TRUE, inQuote)

\* The argument vector the shell hands to the program it starts.
ShellWords(line) == ShellScan(line, <<>>, <<>>, FALSE, FALSE)

\* spawnSync(command, args, { shell: true }): Node joins the command and the
\* arguments with single spaces, unquoted, and runs `/bin/sh -c <line>`.
ShellLine(command, args) == Join(<<command>> \o args, Space)

\* ------------------------------------------------------------------ inputs
\* this.serverless.variables.service.provider.region / .profile; <<>> stands
\* for every falsy setting (unset or ''), which lines 167 and 170 treat alike.
Regions == {<<>>, <<"us-east-1">>}
Profiles == {<<>>, <<"p">>}
\* this.serverless.service.custom.s3LocalPath, read at line 75
LocalPaths == {<<"dist">>, <<"my", Space, "dir">>, <<>>}

BucketKey == "WebAppS3BucketOutput"
DomainKey == "WebAppCloudFrontDistributionOutput"
OutputKeys == {BucketKey, DomainKey, "ServiceEndpoint"}
OutputValues == {<<>>, <<"d1.example.com">>}
Outputs == [OutputKey : OutputKeys, OutputValue : OutputValues]

\* Stacks[0].Outputs of a describeStacks reply: CloudFormation output keys are
\* unique within a stack.
StackOutputs ==
  UNION {{s \in [1..n -> Outputs] :
            \A i, j \in 1..n : i # j => s[i].OutputKey # s[j].OutputKey}
         : n \in 0..MaxOutputs}

Distributions == [Id : {<<"E123">>, <<"E999">>},
                  DomainName : {<<"d1.example.com">>, <<"other.com">>}]
\* DistributionList.Items of a listDistributions reply; domain names may repeat.
DistributionLists == UNION {[1..n -> Distributions] : n \in 0..MaxDistributions}

\* What spawnSync returns once the shell has ended.
SpawnResults == [status : {0, 1},
                 stdout : {<<>>, <<"out">>},
                 stderr : {<<>>, <<"err">>}]

VARIABLES
  region, profile,  \* provider settings read by runAwsCommand
  hook,          \* the lifecycle hook the host fired ("none" before)
  handler,       \* the method bound to it
  pc,            \* "idle", "describeStacks", "listDistributions", "done"
  returned,      \* what the handler returned to the host: "none" (not yet),
                 \* "undefined" or "promise"
  promise,       \* the handler's promise chain: "none", "pending",
                 \* "fulfilled", "rejected"
  value,         \* the value it fulfilled with
  error,         \* the reason it rejected with
  outputKey,     \* argument of getDescribeStacksOutput
  describe,      \* the describeStacks request: "none", "pending", "resolved",
                 \* "rejected"
  stacks,        \* Stacks[0].Outputs of its reply
  output,        \* getDescribeStacksOutput's promise: [st, v]
  list,          \* the listDistributions request, as describe
  distributions, \* DistributionList.Items of its reply
  domain,        \* invalidateCache's local
  nDescribe, nList, \* requests issued to the provider
  spawns,        \* the external commands run, in order
  log            \* the lines given to serverless.cli.log, in order

vars == <<region, profile, hook, handler, pc, returned, promise,
          value, error, outputKey, describe, stacks, output, list,
          distributions, domain, nDescribe, nList, spawns, log>>

config == <<region, profile>>

\* ------------------------------------------------------------ constructor
\* this.hooks (lines 42-51)
hooks ==
  [h \in {"syncToS3:sync", "before:remove:remove", "emptyBucket:empty",
          "domainInfo:domainInfo", "bucketInfo:bucketInfo",
          "invalidateCloudFrontCache:invalidateCache"} |->
     CASE h = "syncToS3:sync" -> "syncDirectory"
       [] h = "before:remove:remove" -> "emptyBucket"
       [] h = "emptyBucket:empty" -> "emptyBucket"
       [] h = "domainInfo:domainInfo" -> "domainInfo"
       [] h = "bucketInfo:bucketInfo" -> "bucketInfo"
       [] h = "invalidateCloudFrontCache:invalidateCache" -> "invalidateCache"]

Init ==
  /\ region \in Regions
  /\ profile \in Profiles
  /\ hook = "none"
  /\ handler = "none"
  /\ pc = "idle"
  /\ returned = "none"
  /\ promise = "none"
  /\ value = <<>>
  /\ error = <<>>
  /\ outputKey = "none"
  /\ describe = "none"
  /\ stacks = <<>>
  /\ output = [st |-> "none", v |-> <<>>]
  /\ list = "none"
  /\ distributions = <<>>
  /\ domain = <<>>
  /\ nDescribe = 0
  /\ nList = 0
  /\ spawns = <<>>
  /\ log = <<>>

\* ------------------------------------------------- getDescribeStacksOutput
\* Array.prototype.find as an index: the first entry with the key, 0 for none.
FindOutput(outs, key) ==
  IF \E i \in 1..Len(outs) : outs[i].OutputKey = key
  THEN CHOOSE i \in 1..Len(outs) :
         /\ outs[i].OutputKey = key
         /\ \A j \in 1..(i - 1) : outs[j].OutputKey # key
  ELSE 0

TypeError == <<"TypeError: Cannot read property 'OutputValue' of undefined">>
RequestFailed == <<"provider.request rejected">>
Undefined == <<"undefined">>

\* The .then callback of lines 65-69: `output` is undefined when no entry has
\* the key, and reading output.OutputValue then throws, which rejects the
\* promise getDescribeStacksOutput returned.
getDescribeStacksOutputThen(outs, key) ==
  LET i == FindOutput(outs, key)
  IN IF i = 0
     THEN [st |-> "rejected", v |-> TypeError]
     ELSE [st |-> "fulfilled", v |-> outs[i].OutputValue]

\* Lines 54-64: one describeStacks request is issued; its promise is pending
\* when the caller gets it.
getDescribeStacksOutput(key) ==
  /\ outputKey' = key
  /\ nDescribe' = nDescribe + 1
  /\ describe' = "pending"
  /\ output' = [st |-> "pending", v |-> <<>>]

\* ------------------------------------------------------------ runAwsCommand
\* Lines 166-172: the command string.
AwsCommand ==
  <<"aws">>
    \o (IF region # <<>> THEN <<Space, "--region", Space>> \o region ELSE <<>>)
    \o (IF profile # <<>> THEN <<Space, "--profile", Space>> \o profile ELSE <<>>)

\* Lines 165-184: runs the command, logs what it printed, returns
\* { stdout, sterr }.  r is what spawnSync returned.
runAwsCommand(args, r) ==
  LET line == ShellLine(AwsCommand, args)
  IN [stdout |-> r.stdout,
      sterr |-> r.stderr,
      logged |-> (IF r.stdout # <<>> THEN <<r.stdout>> ELSE <<>>)
                   \o (IF r.stderr # <<>> THEN <<r.stderr>> ELSE <<>>),
      spawn |-> [command |-> AwsCommand, args |-> args, line |-> line,
                 argv |-> ShellWords(line), status |-> r.status,
                 stdout |-> r.stdout, stderr |-> r.stderr]]

\* Variant: the verdict taken from the exit status.
VerdictByStatus(res) == res.spawn.status = 0

\* `!sterr` at lines 84, 100 and 152: the callers' test of the result.
Verdict(res) == res.sterr = <<>>

\* A command run, with the verdict its caller acted on.
Ran(res) ==
  [command |-> res.spawn.command, args |-> res.spawn.args,
   line |-> res.spawn.line, argv |-> res.spawn.argv,
   status |-> res.spawn.status, stdout |-> res.spawn.stdout,
   stderr |-> res.spawn.stderr, success |-> Verdict(res)]

\* ----------------------------------------------------- promise callbacks
\* What a callback does: the lines it logs, the commands it runs, and how the
\* promise it belongs to settles.
Rejection(reason) ==
  [logged |-> <<>>, spawned |-> <<>>, st |-> "rejected", v |-> reason]

SyncedMsg == <<"Successfully synced to the S3 bucket">>
InvalidatedMsg == <<"Successfully invalidated CloudFront cache">>
InvalidateFailed == <<"Failed invalidating CloudFront cache">>
NotFound == <<"Not Found">>

S3Url(s3Bucket) == <<"s3://">> \o s3Bucket \o <<"/">>

syncDirectoryArgs(s3LocalPath, s3Bucket) ==
  << <<"s3">>, <<"sync">>, s3LocalPath, S3Url(s3Bucket) >>

\* Variant: the command is run a second time.
syncDirectoryTwice(s3LocalPath, s3Bucket, r) ==
  LET args == syncDirectoryArgs(s3LocalPath, s3Bucket)
      res == runAwsCommand(args, r)
  IN [logged |-> <<Join(args, ",")>> \o res.logged \o res.logged,
      spawned |-> <<Ran(res), Ran(res)>>,
      st |-> "fulfilled", v |-> Undefined]

\* Lines 74-87.
syncDirectoryCallback(s3LocalPath, s3Bucket, r) ==
  LET args == syncDirectoryArgs(s3LocalPath, s3Bucket)
      res == runAwsCommand(args, r)
  IN [logged |-> <<Join(args, ",")>> \o res.logged
                   \o (IF Verdict(res) THEN <<SyncedMsg>> ELSE <<>>),
      spawned |-> <<Ran(res)>>,
      st |-> "fulfilled", v |-> Undefined]

emptyBucketArgs(s3Bucket) ==
  << <<"s3">>, <<"rm">>, S3Url(s3Bucket), <<"--recursive">> >>

\* Lines 92-103 (the message is the one syncDirectory logs).
emptyBucketCallback(s3Bucket, r) ==
  LET res == runAwsCommand(emptyBucketArgs(s3Bucket), r)
  IN [logged |-> res.logged \o (IF Verdict(res) THEN <<SyncedMsg>> ELSE <<>>),
      spawned |-> <<Ran(res)>>,
      st |-> "fulfilled", v |-> Undefined]

\* `outputValue || 'Not Found'`
OrNotFound(outputValue) == IF outputValue # <<>> THEN outputValue ELSE NotFound

\* Lines 108-110.
bucketInfoCallback(outputValue) ==
  [logged |-> << <<"Web App Bucket: ">> \o OrNotFound(outputValue) >>,
   spawned |-> <<>>, st |-> "fulfilled", v |-> Undefined]

\* Lines 115-118.
domainInfoCallback(outputValue) ==
  [logged |-> << <<"Web App Domain: ">> \o OrNotFound(outputValue) >>,
   spawned |-> <<>>, st |-> "fulfilled", v |-> outputValue]

\* Variant: the last matching entry instead of the first.
FindLastDistribution(items, dom) ==
  IF \E i \in 1..Len(items) : items[i].DomainName = dom
  THEN CHOOSE i \in 1..Len(items) :
         /\ items[i].DomainName = dom
         /\ \A j \in (i + 1)..Len(items) : items[j].DomainName # dom
  ELSE 0

\* distributions.find(entry => entry.DomainName === domain), lines 135-137,
\* as an index; 0 for undefined.
FindDistribution(items, dom) ==
  IF \E i \in 1..Len(items) : items[i].DomainName = dom
  THEN CHOOSE i \in 1..Len(items) :
         /\ items[i].DomainName = dom
         /\ \A j \in 1..(i - 1) : items[j].DomainName # dom
  ELSE 0

invalidateCacheArgs(id) ==
  << <<"cloudfront">>, <<"create-invalidation">>, <<"--distribution-id">>, id,
     <<"--paths">>, <<Quote, "/*", Quote>> >>

NotMatchedMsg(dom) == <<"Could not find distribution with domain ">> \o dom

\* Variant: a failed invalidation is logged and not thrown.
invalidateCacheFoundNoThrow(id, r) ==
  LET res == runAwsCommand(invalidateCacheArgs(id), r)
  IN [logged |-> << <<"Invalidating CloudFront distribution with id: ">> \o id >>
                   \o res.logged
                   \o (IF Verdict(res) THEN <<InvalidatedMsg>> ELSE <<>>),
      spawned |-> <<Ran(res)>>,
      st |-> "fulfilled", v |-> Undefined]

\* Lines 139-156: a distribution was found.
invalidateCacheFound(id, r) ==
  LET res == runAwsCommand(invalidateCacheArgs(id), r)
  IN [logged |-> << <<"Invalidating CloudFront distribution with id: ">> \o id >>
                   \o res.logged
                   \o (IF Verdict(res) THEN <<InvalidatedMsg>> ELSE <<>>),
      spawned |-> <<Ran(res)>>,
      st |-> IF Verdict(res) THEN "fulfilled" ELSE "rejected",
      v |-> IF Verdict(res) THEN Undefined ELSE InvalidateFailed]

\* Variant: the missing distribution is logged and not thrown.
invalidateCacheNotFoundQuiet(dom) ==
  [logged |-> <<NotMatchedMsg(dom)>>, spawned |-> <<>>,
   st |-> "fulfilled", v |-> Undefined]

\* Lines 157-162: none was.
invalidateCacheNotFound(dom) ==
  [logged |-> <<NotMatchedMsg(dom)>>, spawned |-> <<>>,
   st |-> "rejected", v |-> NotMatchedMsg(dom)]

\* Lines 134-162: invalidateCache after both requests.
invalidateCacheTail(dom, items, r) ==
  LET i == FindDistribution(items, dom)
  IN IF i # 0
     THEN invalidateCacheFound(items[i].Id, r)
     ELSE invalidateCacheNotFound(dom)

\* How a callback's effect shows in the state.
Settle(e) ==
  /\ log' = log \o e.logged
  /\ spawns' = spawns \o e.spawned
  /\ promise' = e.st
  /\ value' = IF e.st = "fulfilled" THEN e.v ELSE <<>>
  /\ error' = IF e.st = "rejected" THEN e.v ELSE <<>>

\* ------------------------------------------------------------ hook handlers
\* Variant: every method returns its promise chain.
ReturnsPromiseAlways(method) == "promise"

\* What the method hands back to the host: domainInfo has a `return` (line
\* 115) and invalidateCache is async (line 121); syncDirectory, emptyBucket
\* and bucketInfo build their promise chain and return nothing.
ReturnOf(method) ==
  IF method \in {"domainInfo", "invalidateCache"} THEN "promise" ELSE "undefined"

\* The host fires hook h: the bound method runs until the describeStacks
\* request is out, and returns.
Enter(h, method, key) ==
  /\ pc = "idle"
  /\ hook' = h
  /\ handler' = method
  /\ getDescribeStacksOutput(key)
  /\ returned' = ReturnOf(method)
  /\ promise' = "pending"
  /\ pc' = "describeStacks"
  /\ UNCHANGED <<config, value, error, stacks, list, distributions, domain,
                 nList, spawns, log>>

syncDirectory ==
  \E h \in DOMAIN hooks :
    /\ hooks[h] = "syncDirectory"
    /\ Enter(h, "syncDirectory", BucketKey)

emptyBucket ==
  \E h \in DOMAIN hooks :
    /\ hooks[h] = "emptyBucket"
    /\ Enter(h, "emptyBucket", BucketKey)

bucketInfo ==
  \E h \in DOMAIN hooks :
    /\ hooks[h] = "bucketInfo"
    /\ Enter(h, "bucketInfo", BucketKey)

domainInfo ==
  \E h \in DOMAIN hooks :
    /\ hooks[h] = "domainInfo"
    /\ Enter(h, "domainInfo", DomainKey)

\* Lines 121-124: up to `await this.domainInfo()`.
invalidateCache ==
  \E h \in DOMAIN hooks :
    /\ hooks[h] = "invalidateCache"
    /\ Enter(h, "invalidateCache", DomainKey)

\* The describeStacks request fails: the rejection runs through every .then
\* (none has a rejection handler) and through the await of line 124.
describeStacksRejected ==
  /\ pc = "describeStacks"
  /\ describe' = "rejected"
  /\ output' = [st |-> "rejected", v |-> RequestFailed]
  /\ Settle(Rejection(RequestFailed))
  /\ pc' = "done"
  /\ UNCHANGED <<config, hook, handler, returned, outputKey, stacks, list,
                 distributions, domain, nDescribe, nList>>

\* The describeStacks reply arrives for `method`: lines 65-69 run, then the
\* method's own callback if they did not throw.
DescribeStacksReply(method, outs) ==
  /\ pc = "describeStacks"
  /\ handler = method
  /\ describe' = "resolved"
  /\ stacks' = outs
  /\ output' = getDescribeStacksOutputThen(outs, outputKey)

syncDirectoryThen ==
  \E outs \in StackOutputs, s3LocalPath \in LocalPaths, r \in SpawnResults :
    /\ DescribeStacksReply("syncDirectory", outs)
    /\ Settle(IF output'.st = "fulfilled"
              THEN syncDirectoryCallback(s3LocalPath, output'.v, r)
              ELSE Rejection(output'.v))
    /\ pc' = "done"
    /\ UNCHANGED <<config, hook, handler, returned, outputKey, list,
                   distributions, domain, nDescribe, nList>>

emptyBucketThen ==
  \E outs \in StackOutputs, r \in SpawnResults :
    /\ DescribeStacksReply("emptyBucket", outs)
    /\ Settle(IF output'.st = "fulfilled"
              THEN emptyBucketCallback(output'.v, r)
              ELSE Rejection(output'.v))
    /\ pc' = "done"
    /\ UNCHANGED <<config, hook, handler, returned, outputKey, list,
                   distributions, domain, nDescribe, nList>>

bucketInfoThen ==
  \E outs \in StackOutputs :
    /\ DescribeStacksReply("bucketInfo", outs)
    /\ Settle(IF output'.st = "fulfilled"
              THEN bucketInfoCallback(output'.v)
              ELSE Rejection(output'.v))
    /\ pc' = "done"
    /\ UNCHANGED <<config, hook, handler, returned, outputKey, list,
                   distributions, domain, nDescribe, nList>>

domainInfoThen ==
  \E outs \in StackOutputs :
    /\ DescribeStacksReply("domainInfo", outs)
    /\ Settle(IF output'.st = "fulfilled"
              THEN domainInfoCallback(output'.v)
              ELSE Rejection(output'.v))
    /\ pc' = "done"
    /\ UNCHANGED <<config, hook, handler, returned, outputKey, list,
                   distributions, domain, nDescribe, nList>>

\* invalidateCache resumes after `await this.domainInfo()`: domainInfo's
\* callback has logged the domain, and lines 126-132 issue listDistributions.
\* When domainInfo's promise rejected, the await throws and the method ends.
invalidateCacheDomain ==
  \E outs \in StackOutputs :
    /\ DescribeStacksReply("invalidateCache", outs)
    /\ IF output'.st = "fulfilled"
       THEN /\ log' = log \o domainInfoCallback(output'.v).logged
            /\ domain' = domainInfoCallback(output'.v).v
            /\ nList' = nList + 1
            /\ list' = "pending"
            /\ pc' = "listDistributions"
            /\ UNCHANGED <<promise, value, error, spawns>>
       ELSE /\ Settle(Rejection(output'.v))
            /\ pc' = "done"
            /\ UNCHANGED <<domain, nList, list>>
    /\ UNCHANGED <<config, hook, handler, returned, outputKey, distributions,
                   nDescribe>>

\* The listDistributions request fails: the await of line 126 throws.
listDistributionsRejected ==
  /\ pc = "listDistributions"
  /\ list' = "rejected"
  /\ Settle(Rejection(RequestFailed))
  /\ pc' = "done"
  /\ UNCHANGED <<config, hook, handler, returned, outputKey, describe, stacks,
                 output, distributions, domain, nDescribe, nList>>

\* The listDistributions reply arrives: lines 134-162.
invalidateCacheResume ==
  \E items \in DistributionLists, r \in SpawnResults :
    /\ pc = "listDistributions"
    /\ list' = "resolved"
    /\ distributions' = items
    /\ Settle(invalidateCacheTail(domain, items, r))
    /\ pc' = "done"
    /\ UNCHANGED <<config, hook, handler, returned, outputKey, describe,
                   stacks, output, domain, nDescribe, nList>>

Next ==
  \/ syncDirectory
  \/ emptyBucket
  \/ bucketInfo
  \/ domainInfo
  \/ invalidateCache
  \/ describeStacksRejected
  \/ syncDirectoryThen
  \/ emptyBucketThen
  \/ bucketInfoThen
  \/ domainInfoThen
  \/ invalidateCacheDomain
  \/ listDistributionsRejected
  \/ invalidateCacheResume

Spec == Init /\ [][Next]_vars

\* ================================================================== claims
HasOutput == \E i \in 1..Len(stacks) : stacks[i].OutputKey = outputKey

Matches == {i \in 1..Len(distributions) : distributions[i].DomainName = domain}

Logged(line) == \E k \in 1..Len(log) : log[k] = line

\* C1: once the stack description has arrived, getDescribeStacksOutput yields
\* the OutputValue of the entry with the requested key when there is one, and
\* otherwise a NotFound result: not a failure, and not the empty string.
C1_OutputResolution ==
  describe = "resolved" =>
    IF HasOutput
    THEN \E i \in 1..Len(stacks) :
           /\ stacks[i].OutputKey = outputKey
           /\ output = [st |-> "fulfilled", v |-> stacks[i].OutputValue]
    ELSE output.st = "fulfilled" /\ output.v # <<>>

\* C2: when the distribution list has no entry with the resolved domain,
\* invalidateCache ends raising an error that names the domain, and no
\* external command has been run.
C2_NoMatchRaises ==
  (handler = "invalidateCache" /\ list = "resolved" /\ Matches = {}) =>
    /\ pc = "done"
    /\ returned = "promise"
    /\ promise = "rejected"
    /\ error = <<"Could not find distribution with domain ">> \o domain
    /\ spawns = <<>>

C2_Witness ==
  /\ handler = "invalidateCache"
  /\ list = "resolved"
  /\ distributions # <<>>
  /\ Matches = {}
  /\ promise = "rejected"

\* C3: the create-invalidation command is issued, once, with the Id of the
\* first list entry whose DomainName equals the resolved domain; without such
\* an entry no command is issued.
C3_FirstMatchTargeted ==
  (handler = "invalidateCache" /\ list = "resolved") =>
    /\ Len(spawns) <= 1
    /\ Matches = {} => spawns = <<>>
    /\ Matches # {} =>
         \E i \in Matches :
           /\ \A j \in Matches : i <= j
           /\ Len(spawns) = 1
           /\ spawns[1].args = << <<"cloudfront">>, <<"create-invalidation">>,
                                  <<"--distribution-id">>, distributions[i].Id,
                                  <<"--paths">>, <<Quote, "/*", Quote>> >>
           /\ \E k \in 1..(Len(spawns[1].argv) - 1) :
                /\ spawns[1].argv[k] = <<"--distribution-id">>
                /\ spawns[1].argv[k + 1] = distributions[i].Id

C3_Witness ==
  /\ handler = "invalidateCache"
  /\ list = "resolved"
  /\ Cardinality(Matches) = 2
  /\ distributions[1].Id # distributions[2].Id
  /\ Len(spawns) = 1
  /\ spawns[1].args[4] = distributions[1].Id

\* An error that reaches the host: the handler returned its promise and the
\* promise rejected.
RaisedToHost == returned = "promise" /\ promise = "rejected"

\* C4: syncDirectory, emptyBucket, bucketInfo and domainInfo never raise to
\* the host, whatever the describeStacks request and the external command
\* do; a failed command in syncDirectory or emptyBucket has its error text
\* logged, no success message logged, and raises nothing.
C4_FourNeverRaise ==
  handler \in {"syncDirectory", "emptyBucket", "bucketInfo", "domainInfo"} =>
    /\ ~RaisedToHost
    /\ \A i \in 1..Len(spawns) :
         spawns[i].stderr # <<>> =>
           /\ Logged(spawns[i].stderr)
           /\ ~Logged(SyncedMsg)
           /\ promise # "rejected"

\* C5: when invalidateCache found a distribution and ran the command, it
\* raises exactly when the captured stderr is non-empty; otherwise it logs
\* the success message and completes.
C5_InvalidateRaisesIffStderr ==
  (handler = "invalidateCache" /\ spawns # <<>>) =>
    /\ pc = "done"
    /\ returned = "promise"
    /\ promise \in {"fulfilled", "rejected"}
    /\ promise = "rejected" <=> spawns[1].stderr # <<>>
    /\ promise = "rejected" =>
         /\ error = <<"Failed invalidating CloudFront cache">>
         /\ ~Logged(<<"Successfully invalidated CloudFront cache">>)
    /\ promise = "fulfilled" =>
         log[Len(log)] = <<"Successfully invalidated CloudFront cache">>

C5_Witness ==
  /\ handler = "invalidateCache"
  /\ Len(spawns) = 1
  /\ spawns[1].stderr # <<>>
  /\ spawns[1].status = 0
  /\ promise = "rejected"

\* C6: the verdict of every command run is success exactly when the captured
\* stderr is the empty string, whatever the exit status, and the caller logs
\* its success message exactly then.
C6_VerdictIsStderrEmpty ==
  \A i \in 1..Len(spawns) :
    /\ spawns[i].success <=> spawns[i].stderr = <<>>
    /\ (Logged(SyncedMsg) \/ Logged(InvalidatedMsg)) <=> spawns[i].stderr = <<>>

C6_Witness ==
  /\ Len(spawns) = 1
  /\ spawns[1].status = 1
  /\ spawns[1].stderr = <<>>
  /\ spawns[1].success
  /\ Logged(SyncedMsg)

\* C7: the invocation the external program receives is `aws`, the --region
\* pair when a region is set, the --profile pair when a profile is set, then
\* the caller's tokens, each one as given and in the order given.
C7_InvocationTokens ==
  \A i \in 1..Len(spawns) :
    spawns[i].argv =
      << <<"aws">> >>
        \o (IF region # <<>> THEN << <<"--region">>, region >> ELSE <<>>)
        \o (IF profile # <<>> THEN << <<"--profile">>, profile >> ELSE <<>>)
        \o spawns[i].args

\* C8: bucketInfo and domainInfo log exactly one line: the resolved value
\* when the key is found, the text `Not Found` when it is not.
C8_InfoPlaceholder ==
  (handler \in {"bucketInfo", "domainInfo"} /\ describe = "resolved") =>
    /\ Len(log) = 1
    /\ \A i \in 1..Len(stacks) :
         stacks[i].OutputKey = outputKey =>
           log[1] = (IF handler = "bucketInfo"
                     THEN <<"Web App Bucket: ">> ELSE <<"Web App Domain: ">>)
                      \o stacks[i].OutputValue
    /\ ~HasOutput =>
         log[1] = (IF handler = "bucketInfo"
                   THEN <<"Web App Bucket: ">> ELSE <<"Web App Domain: ">>)
                    \o <<"Not Found">>

\* The step ordering every invocation keeps: at most one describeStacks
\* request; a listDistributions request only from invalidateCache and only
\* after describeStacks resolved; a command only after every request issued
\* has completed; at most one command, and exactly one for syncDirectory and
\* emptyBucket when the output resolved and for invalidateCache when a
\* distribution matched.
StepOrdering ==
  /\ nDescribe <= 1
  /\ nList <= 1
  /\ nList = 1 => (handler = "invalidateCache" /\ describe = "resolved")
  /\ spawns # <<>> => (describe = "resolved" /\ list \in {"none", "resolved"})
  /\ Len(spawns) <= 1
  /\ (pc = "done" /\ handler \in {"syncDirectory", "emptyBucket"}) =>
       (Len(spawns) = 1 <=> output.st = "fulfilled")
  /\ handler \in {"bucketInfo", "domainInfo"} => spawns = <<>>
  /\ (pc = "done" /\ handler = "invalidateCache") =>
       (Len(spawns) = 1 <=> (list = "resolved" /\ Matches # {}))

\* C9 as stated: the step ordering, with exactly one listDistributions
\* request issued by every invalidateCache invocation.
C9_ExactlyOneListFetch ==
  /\ StepOrdering
  /\ (pc = "done" /\ handler = "invalidateCache") => nList = 1

\* C9 as amended: the step ordering, with one listDistributions request
\* issued by invalidateCache exactly when domainInfo's promise fulfilled and
\* none when it rejected.
C9_StepOrdering ==
  /\ StepOrdering
  /\ (pc = "done" /\ handler = "invalidateCache") =>
       (nList = 1 <=> output.st = "fulfilled")

C9_Witness ==
  /\ pc = "done"
  /\ handler = "invalidateCache"
  /\ nDescribe = 1
  /\ nList = 1
  /\ Len(spawns) = 1

\* C10: syncDirectory, emptyBucket and bucketInfo return undefined to the
\* host while the describeStacks request is pending, with no command run and
\* nothing logged, and the host never gets their promise; domainInfo and
\* invalidateCache return a promise that settles only at their last step.
C10_HookCompletion ==
  /\ [](/\ handler \in {"syncDirectory", "emptyBucket", "bucketInfo"} =>
             returned = "undefined"
        /\ handler \in {"domainInfo", "invalidateCache"} =>
             /\ returned = "promise"
             /\ promise # "pending" <=> pc = "done"
        /\ (returned # "none" /\ describe = "pending") =>
             (log = <<>> /\ spawns = <<>>))
  /\ [][(returned = "none" /\ returned' # "none") =>
          (describe' = "pending" /\ log' = <<>> /\ spawns' = <<>>)]_vars

C10_Witness ==
  /\ hook = "before:remove:remove"
  /\ returned = "undefined"
  /\ pc = "done"
  /\ Len(spawns) = 1
  /\ spawns[1].args[2] = <<"rm">>
====
